---------------------------- MODULE Spec2Model ----------------------------
(***************************************************************************)
(* VectorSampledTasks (src/a2c_ppo_acktr/vector_task.py): a coordinator    *)
(* that drives N worker processes, each running                            *)
(* _task_sampling_loop_worker, over one duplex pipe per worker.            *)
(*                                                                         *)
(* A worker is named by its slot 0 .. N-1, the position it was spawned at. *)
(* The parent end of worker w's pipe is the pair of functions (recv, send) *)
(* the coordinator keeps in _connection_read_fns / _connection_write_fns;  *)
(* here both are written w, and the three parallel lists of the class are  *)
(* three sequences of slots.  The pipe itself is two FIFO queues: cmdQ[w]  *)
(* (coordinator -> worker) and respQ[w] (worker -> coordinator).           *)
(*                                                                         *)
(* A public method of the coordinator runs as a sequence of steps, one per *)
(* statement that touches a pipe or a process (send, blocking recv,        *)
(* blocking join) or a field; the workers run concurrently and handle one  *)
(* command per step.  The statements still to run of the method in         *)
(* progress are held in todo, in program order.                            *)
(*                                                                         *)
(* The methods of the class and the worker function are followed from the  *)
(* state __init__ is written to establish: every worker in its loop with   *)
(* its first task, the two space queries answered, nothing paused.  The    *)
(* constructor itself, with _spawn_workers as it binds the arguments of    *)
(* the worker function, is followed in SpecConstruct, with close() after   *)
(* it in SpecFinalize, and the constructor of ThreadedVectorSampledTasks   *)
(* in SpecThreaded.  tile_images, a function of its argument alone, is     *)
(* followed in SpecTile.                                                   *)
(***************************************************************************)
EXTENDS Integers, Sequences, FiniteSets, TLC

\* The largest number of sampler_fn_args dictionaries given to the
\* constructor, i.e. the largest self._num_processes.
N == 3

\* The number of workers in the specifications that follow what happens
\* inside the workers: their tasks (SpecTasks, SpecAt, SpecStepOnly) and
\* their failures (SpecFaults).
TaskWorkers == 2

\* How many calls that break the usage rules of the class (a dispatch while
\* one is outstanding, wait_step with nothing outstanding, an argument list
\* whose length is not the number of active workers) a behaviour of
\* SpecAnyUse may contain.
MaxMisuse == 1

\* How many times close() (directly, or through __exit__ / __del__) is
\* called in a behaviour.
MaxCloseCalls == 2

\* Number of steps after which a task of the sampler is done (the L of an
\* L-step episode).
EpisodeLen == 2

\* How many step() calls a behaviour of SpecStepOnly contains.
MaxStepCalls == 4

\* Inputs of tile_images: up to MaxImages images, each MaxSide or fewer
\* pixels high and wide with MaxChannels or fewer channels; image 0 is all
\* zero, images 1 .. MaxImageId are not.
MaxImages == 4

MaxSide == 2

MaxChannels == 2

MaxImageId == 1

\* The longest list of images SpecGrid gives tile_images.
MaxGridImages == 64

STEP_COMMAND == "step"
NEXT_TASK_COMMAND == "next_task"
RENDER_COMMAND == "render"
CLOSE_COMMAND == "close"
CALL_COMMAND == "call"
OBSERVATION_SPACE_COMMAND == "observation_space"
ACTION_SPACE_COMMAND == "action_space"

\* Python's None.
None == "None"

\* render returns an image or None; an image is a list of rows, a row a
\* list of pixels, a pixel a list of channel values.
NoImage == <<>>

\* The actions a caller passes to step / async_step.
Actions == {"a0", "a1"}

\* The method names a caller passes to call.
FunctionNames == {"f"}

\* A name that is no attribute of a task.
UnknownFunctionNames == {"g"}

\* The tag of the one command the worker has only as a comment (line 35,
\* lines 200-202).
EPISODE_COMMAND == "current_episode"

\* _valid_start_methods, lines 455-457, and the start methods a caller
\* passes to the constructor.
ValidStartMethods == {"forkserver", "spawn", "fork"}
StartMethods == {"forkserver", "fork", "thread"}

\* The modes a caller passes to render.
RenderModes == {"human", "rgb_array", "depth"}

\* A task sampler, as make_sampler_fn builds it: the episodes it hands out,
\* in this order and then again from the first, and the number of steps
\* after which a task is done.  A task is named by its position in
\* episodes.
OneStepSampler == [episodes |-> <<"e0">>, length |-> 1]
EpisodeSampler == [episodes |-> <<"e0", "e1">>, length |-> EpisodeLen]

Slots == 0 .. (N - 1)

VARIABLES
    readFns,        \* self._connection_read_fns : slots, in active order
    writeFns,       \* self._connection_write_fns
    workers,        \* self._workers
    paused,         \* self._paused : (index, read_fn, write_fn, worker)
    isWaiting,      \* self._is_waiting
    isClosed,       \* self._is_closed
    cmdQ,           \* cmdQ[w] : commands sent to w that w has not read
    respQ,          \* respQ[w] : responses of w the coordinator has not read
    wpc,            \* wpc[w] : "loop" while w runs its loop, then how it left
    curTask,        \* curTask[w] : current_task of w (position in Episodes)
    taskSteps,      \* taskSteps[w] : steps current_task of w has taken
    samplerClosed,  \* samplerClosed[w] : task_sampler.close() calls of w
    numProcesses,   \* self._num_processes
    sampler,        \* what make_sampler_fn builds in every worker
    autoResample,   \* self._auto_resample_when_done
    hasPaused,      \* the attribute self._paused exists
    op,             \* the public method in progress, "none" between calls
    todo,           \* its statements still to run
    results,        \* its local list of responses read so far
    raised,         \* it ended by raising
    returned,       \* the image it returns (NoImage: none)
    callArgs,       \* history: the list (or index) it was called with
    events,         \* history: the sends, recvs and joins it has made
    outstandingAtCall, \* history: slots with an unanswered command at entry
    tasksAtCall,    \* history: <<curTask[w], taskSteps[w]>> at entry
    orderAtFirstPause, \* history: the active lists when a pause cycle began
    misuseLeft,     \* usage-rule violations the caller may still make
    closeCalls,     \* number of close() calls made
    stepCalls       \* number of step() calls made (counted in SpecStepOnly)

coordVars == <<readFns, writeFns, workers, paused, isWaiting, isClosed>>
ctorVars == <<numProcesses, sampler, autoResample, hasPaused>>
chanVars == <<cmdQ, respQ, wpc>>
taskVars == <<curTask, taskSteps, samplerClosed>>
callVars == <<op, todo, results, raised, returned, callArgs, events,
              outstandingAtCall, tasksAtCall>>
vars == <<readFns, writeFns, workers, paused, isWaiting, isClosed, cmdQ,
          respQ, wpc, curTask, taskSteps, samplerClosed, numProcesses,
          sampler, autoResample, hasPaused, op, todo, results, raised,
          returned,
          callArgs, events,
          outstandingAtCall, tasksAtCall, orderAtFirstPause, misuseLeft,
          closeCalls, stepCalls>>

----------------------------------------------------------------------------
\* Sequence helpers (Python list operations).

\* range(n) as a sequence: <<0, ..., n-1>>.
Range(n) == [j \in 1 .. n |-> j - 1]

\* Mutant of ListPop: pop() without the index, which drops the last entry.
ListPopLast(s, index) == SubSeq(s, 1, Len(s) - 1)

\* list.pop(index), 0 <= index < len: the list without position index.
ListPop(s, index) ==
    [j \in 1 .. (Len(s) - 1) |-> IF j <= index THEN s[j] ELSE s[j + 1]]

\* Mutant of ListInsert: list[index] = x, which overwrites and never grows.
ListInsertOverwrite(s, index, x) ==
    IF index + 1 \in DOMAIN s THEN [s EXCEPT ![index + 1] = x] ELSE s

\* list.insert(index, x), index >= 0: x goes before position index, or at
\* the end when index >= len.
ListInsert(s, index, x) ==
    LET at == IF index > Len(s) THEN Len(s) ELSE index
    IN  [j \in 1 .. (Len(s) + 1) |->
            IF j <= at THEN s[j] ELSE IF j = at + 1 THEN x ELSE s[j - 1]]

\* Mutant of Reversed: the paused list walked in insertion order.
NotReversed(s) == s

\* reversed(s).
Reversed(s) == [j \in 1 .. Len(s) |-> s[Len(s) + 1 - j]]

Min(a, b) == IF a <= b THEN a ELSE b

\* All sequences over S of length 0 .. n.
SeqUpTo(S, n) == UNION {[1 .. m -> S] : m \in 0 .. n}


----------------------------------------------------------------------------
\* Messages.

\* The tuple (command, data) a write_fn sends.  data is the action of a
\* step and the function name of a call; args is the function_args of a call.
Command(tag, data, args) == [tag |-> tag, data |-> data, args |-> args]

NoCommand == Command("", None, None)

\* What worker w writes back for command c (lines 171-199): the value
\* computed by w's current task for c.  It is named by the worker that
\* computed it and the command it answers.
Response(w, c) == [worker |-> w, tag |-> c.tag, data |-> c.data]

\* Unanswered requests on w's pipe: commands w has not read yet, plus
\* responses the coordinator has not read yet.  Close has no response.
InFlight(w) ==
    Len(SelectSeq(cmdQ[w], LAMBDA c : c.tag # CLOSE_COMMAND)) + Len(respQ[w])

Pending == \E w \in Slots : InFlight(w) > 0

----------------------------------------------------------------------------
\* Statements of the coordinator's methods.

Stmt(ins, fn, cmd, flag) == [ins |-> ins, fn |-> fn, cmd |-> cmd, flag |-> flag]

\* write_fn(cmd), write_fn the send of worker w's pipe.
Send(w, cmd) == Stmt("send", w, cmd, FALSE)
\* read_fn(), read_fn the recv of worker w's pipe; keep: the value is
\* appended to the method's result list (otherwise it is dropped).
Recv(w, keep) == Stmt("recv", w, NoCommand, keep)
\* process.join() on worker w.
Join(w) == Stmt("join", w, NoCommand, FALSE)
\* self._is_waiting = v
SetWaiting(v) == Stmt("set_waiting", -1, NoCommand, v)
\* self._is_closed = True
SetClosed == Stmt("set_closed", -1, NoCommand, TRUE)
\* self._is_closed = v
SetClosedTo(v) == Stmt("set_closed", -1, NoCommand, v)
\* self._spawn_workers(...) and the assignment of its result
Spawn == Stmt("spawn", -1, NoCommand, FALSE)

SpawnThreads == Stmt("spawn_threads", -1, NoCommand, FALSE)
\* self.observation_spaces = [...] / self.action_spaces = [...]
StoreSpaces(field) == Stmt("store", -1, Command(field, None, None), FALSE)
\* self._paused = []
SetPaused == Stmt("set_paused", -1, NoCommand, FALSE)
\* the three pops and the append of pause_at(index)
Pop(index) == Stmt("pop", index, NoCommand, FALSE)
\* assert False / raise
Raise == Stmt("raise", -1, NoCommand, FALSE)
\* tile_images(images) and the mode dispatch of render
Tile(mode) == Stmt("tile", -1, Command(RENDER_COMMAND, mode, None), FALSE)

\* Mutant of ReadAll: the pipes read from the last to the first.
ReadAllBackwards(keep) ==
    [j \in 1 .. Len(readFns) |-> Recv(readFns[Len(readFns) + 1 - j], keep)]

\* for read_fn in self._connection_read_fns: read_fn()
ReadAll(keep) == [j \in 1 .. Len(readFns) |-> Recv(readFns[j], keep)]

\* for write_fn in self._connection_write_fns: write_fn(cmd)
WriteAllAndPaused(cmd) ==
    [j \in 1 .. Len(writeFns) |-> Send(writeFns[j], cmd)]
        \o [j \in 1 .. Len(paused) |-> Send(paused[j].write_fn, cmd)]

WriteAll(cmd) == [j \in 1 .. Len(writeFns) |-> Send(writeFns[j], cmd)]

\* async_step, lines 315-317.  zip stops at the shorter of its arguments.
AsyncStepBody(actions) ==
    <<SetWaiting(TRUE)>> \o
    [j \in 1 .. Min(Len(writeFns), Len(actions)) |->
        Send(writeFns[j], Command(STEP_COMMAND, actions[j], None))]

\* wait_step, lines 321-325.
WaitStepBody == ReadAll(TRUE) \o <<SetWaiting(FALSE)>>

\* Mutant of StepBody: each worker is sent its action and waited for before
\* the next one is sent anything.
RECURSIVE OneByOne(_, _)
OneByOne(fns, actions) ==
    IF fns = <<>> \/ actions = <<>>
    THEN <<>>
    ELSE <<Send(Head(fns), Command(STEP_COMMAND, Head(actions), None)),
           Recv(Head(fns), TRUE)>> \o OneByOne(Tail(fns), Tail(actions))

StepBodyOneByOne(actions) ==
    <<SetWaiting(TRUE)>> \o OneByOne(writeFns, actions)
        \o <<SetWaiting(FALSE)>>

\* step, lines 337-338.
StepBody(actions) == AsyncStepBody(actions) \o WaitStepBody

\* next_task, lines 268-275.
NextTaskBody ==
    <<SetWaiting(TRUE)>> \o WriteAll(Command(NEXT_TASK_COMMAND, None, None))
        \o ReadAll(TRUE) \o <<SetWaiting(FALSE)>>

\* Mutant of CallBody: the lengths are compared after the commands were
\* written.
CallBodyLateAssert(names, argsList) ==
    LET given == IF ~argsList.given
                 THEN [j \in 1 .. Len(names) |-> None]
                 ELSE argsList.list
    IN  <<SetWaiting(TRUE)>>
        \o [j \in 1 .. Min(Len(writeFns), Min(Len(names), Len(given))) |->
               Send(writeFns[j], Command(CALL_COMMAND, names[j], given[j]))]
        \o IF Len(names) # Len(given)
           THEN <<Raise>>
           ELSE ReadAll(TRUE) \o <<SetWaiting(FALSE)>>

\* call, lines 425-436.  argsList is function_args_list: not given (None)
\* or a list.
CallBody(names, argsList) ==
    LET given == IF ~argsList.given
                 THEN [j \in 1 .. Len(names) |-> None]
                 ELSE argsList.list
    IN  <<SetWaiting(TRUE)>> \o
        IF Len(names) # Len(given)
        THEN <<Raise>>
        ELSE [j \in 1 .. Min(Len(writeFns), Len(names)) |->
                 Send(writeFns[j], Command(CALL_COMMAND, names[j], given[j]))]
             \o ReadAll(TRUE) \o <<SetWaiting(FALSE)>>

\* render, lines 440-453.
RenderBodyCheckModeFirst(mode) ==
    WriteAll(Command(RENDER_COMMAND, "rgb", None))
        \o (IF mode \in {"human", "rgb_array"}
            THEN ReadAll(TRUE) \o <<Tile(mode)>>
            ELSE <<Raise>>)

RenderBodySkipsEmpty(mode) ==
    IF writeFns = <<>>
    THEN <<>>
    ELSE WriteAll(Command(RENDER_COMMAND, "rgb", None)) \o ReadAll(TRUE)
             \o <<Tile(mode)>>

RenderBody(mode) ==
    WriteAll(Command(RENDER_COMMAND, "rgb", None)) \o ReadAll(TRUE)
        \o <<Tile(mode)>>

\* The body of step_at, next_task_at and call_at: one command to the write
\* function at position index, one read of the read function at the same
\* position.  A position past the end of the list is an IndexError.
AtBody(index, cmd) ==
    <<SetWaiting(TRUE)>> \o
    IF index < Len(writeFns)
    THEN <<Send(writeFns[index + 1], cmd), Recv(readFns[index + 1], TRUE),
           SetWaiting(FALSE)>>
    ELSE <<Raise>>

\* Mutant of StepAtBody: the action goes to every active worker.
StepAtBodyBroadcast(index, action) ==
    <<SetWaiting(TRUE)>> \o WriteAll(Command(STEP_COMMAND, action, None))
        \o (IF index < Len(readFns)
            THEN <<Recv(readFns[index + 1], TRUE), SetWaiting(FALSE)>>
            ELSE <<Raise>>)

\* step_at, lines 303-307.
StepAtBody(index, action) ==
    AtBody(index, Command(STEP_COMMAND, action, None))

\* next_task_at, lines 287-291.
NextTaskAtBody(index) == AtBody(index, Command(NEXT_TASK_COMMAND, None, None))

\* call_at, lines 402-408.
CallAtBody(index, name) == AtBody(index, Command(CALL_COMMAND, name, None))

\* Mutant of PauseAtBody: no drain of an outstanding dispatch.
PauseAtBodyNoDrain(index) == <<Pop(index)>>

\* pause_at, lines 372-378.
PauseAtBody(index) ==
    (IF isWaiting THEN ReadAll(FALSE) ELSE <<>>) \o <<Pop(index)>>

\* Mutant of CloseBody: no early return when already closed.
CloseBodyNoGuard ==
    (IF isWaiting THEN ReadAll(FALSE) ELSE <<>>)
        \o WriteAll(Command(CLOSE_COMMAND, None, None))
        \o [j \in 1 .. Len(paused) |->
               Send(paused[j].write_fn, Command(CLOSE_COMMAND, None, None))]
        \o [j \in 1 .. Len(workers) |-> Join(workers[j])]
        \o [j \in 1 .. Len(paused) |-> Join(paused[j].worker)]
        \o <<SetClosed>>

\* Mutant of CloseBody: the paused workers are forgotten.
CloseBodyActiveOnly ==
    IF isClosed
    THEN <<>>
    ELSE (IF isWaiting THEN ReadAll(FALSE) ELSE <<>>)
         \o WriteAll(Command(CLOSE_COMMAND, None, None))
         \o [j \in 1 .. Len(workers) |-> Join(workers[j])]
         \o <<SetClosed>>

\* close, lines 341-360; reading self._paused at line 351 raises
\* AttributeError when __init__ did not get to line 140.
CloseBody ==
    IF isClosed
    THEN <<>>
    ELSE (IF isWaiting THEN ReadAll(FALSE) ELSE <<>>)
         \o WriteAll(Command(CLOSE_COMMAND, None, None))
         \o IF hasPaused
            THEN [j \in 1 .. Len(paused) |->
                     Send(paused[j].write_fn,
                          Command(CLOSE_COMMAND, None, None))]
                 \o [j \in 1 .. Len(workers) |-> Join(workers[j])]
                 \o [j \in 1 .. Len(paused) |-> Join(paused[j].worker)]
                 \o <<SetClosed>>
            ELSE <<Raise>>

\* __init__, lines 107-140, called with n sampler_fn_args dictionaries (0:
\* None or an empty list) and a start method.
InitBodyWith(n, method, spawn) ==
    <<SetWaiting(FALSE), SetClosedTo(TRUE)>> \o
    IF n = 0 \/ method \notin ValidStartMethods
    THEN <<Raise>>
    ELSE <<spawn, SetClosedTo(FALSE)>>
         \o [j \in 1 .. n |->
                Send(j - 1, Command(OBSERVATION_SPACE_COMMAND, None, None))]
         \o [j \in 1 .. n |-> Recv(j - 1, TRUE)]
         \o <<StoreSpaces(OBSERVATION_SPACE_COMMAND)>>
         \o [j \in 1 .. n |->
                Send(j - 1, Command(ACTION_SPACE_COMMAND, None, None))]
         \o [j \in 1 .. n |-> Recv(j - 1, TRUE)]
         \o <<StoreSpaces(ACTION_SPACE_COMMAND), SetPaused>>

InitBody(n, method) == InitBodyWith(n, method, Spawn)

\* The parameters of _task_sampling_loop_worker, lines 151-159, and the
\* positional arguments _spawn_workers starts each process with, lines
\* 234-242, each named by what it is.
WorkerParams ==
    <<"worker_id", "connection_read_fn", "connection_write_fn",
      "make_sampler_fn", "sampler_fn_args", "auto_resample_when_done",
      "child_pipe", "parent_pipe">>
SpawnArgs ==
    <<"worker_conn.recv", "worker_conn.send", "make_sampler_fn",
      "sampler_fn_args", "auto_resample_when_done", "worker_conn",
      "parent_conn">>

\* What a parameter of the worker function is bound to: positional
\* arguments are bound to the parameters from the first on, a parameter
\* left without one takes its default, None.
Bound(param) ==
    LET i == CHOOSE i \in 1 .. Len(WorkerParams) : WorkerParams[i] = param
    IN  IF i <= Len(SpawnArgs) THEN SpawnArgs[i] ELSE None

\* Line 163, make_sampler_fn(**sampler_fn_args): the first must be the
\* callable, the second the dictionary.
CanBuildSampler ==
    /\ Bound("make_sampler_fn") = "make_sampler_fn"
    /\ Bound("sampler_fn_args") = "sampler_fn_args"

\* resume_all, lines 382-386: the lists after reinserting the entries of
\* entries (already reversed) one after the other.
RECURSIVE Reinsert(_, _, _)
Reinsert(list, entries, field) ==
    IF entries = <<>>
    THEN list
    ELSE Reinsert(ListInsert(list, Head(entries).index, Head(entries)[field]),
                  Tail(entries), field)

----------------------------------------------------------------------------
\* tasksAtCall between calls.
NoTasks == [w \in Slots |-> <<0, 0>>]

\* The state __init__ (lines 107-140) is written to establish, for
\* numProcesses dictionaries, a sampler and an auto-resample flag: the
\* workers are spawned, each in its loop with its first task, and have
\* answered the two space queries; nothing is paused.  budget is the number
\* of usage-rule violations the caller may make.

InitWith(budget, sizes, samplers, flags) ==
    /\ numProcesses \in sizes
    /\ readFns = Range(numProcesses)
    /\ writeFns = Range(numProcesses)
    /\ workers = Range(numProcesses)
    /\ paused = <<>>
    /\ isWaiting = FALSE
    /\ isClosed = FALSE
    /\ cmdQ = [w \in Slots |-> <<>>]
    /\ respQ = [w \in Slots |-> <<>>]
    /\ wpc = [w \in Slots |->
                 IF w < numProcesses THEN "loop" ELSE "unspawned"]
    /\ curTask = [w \in Slots |-> 1]
    /\ taskSteps = [w \in Slots |-> 0]
    /\ samplerClosed = [w \in Slots |-> 0]
    /\ sampler \in samplers
    /\ autoResample \in flags
    /\ hasPaused = TRUE
    /\ op = "none"
    /\ todo = <<>>
    /\ results = <<>>
    /\ raised = FALSE
    /\ returned = NoImage
    /\ callArgs = <<>>
    /\ events = <<>>
    /\ outstandingAtCall = {}
    /\ tasksAtCall = NoTasks
    /\ orderAtFirstPause = <<readFns, writeFns, workers>>
    /\ misuseLeft = budget
    /\ closeCalls = 0
    /\ stepCalls = 0

\* The caller keeps to the usage rules.
Init == InitWith(0, {N}, {OneStepSampler}, {TRUE})

\* The caller may break them, MaxMisuse times.
InitAnyUse == InitWith(MaxMisuse, {N}, {OneStepSampler}, {TRUE})

----------------------------------------------------------------------------
\* A call of a public method: the caller enters it with nothing else in
\* progress (the coordinator has a single calling thread).  misuse says
\* whether this call breaks a usage rule: it dispatches while a dispatch is
\* outstanding, waits with nothing outstanding, or passes a list that has
\* not one entry per active worker.  (A call whose two lists differ in
\* length is no misuse in this sense: call itself checks for it.)  A closed
\* coordinator is only closed again.

Enter(name, args, body, misuse) ==
    /\ op = "none"
    /\ misuse => misuseLeft > 0
    /\ op' = name
    /\ todo' = body
    /\ results' = <<>>
    /\ raised' = FALSE
    /\ returned' = NoImage
    /\ callArgs' = args
    /\ events' = <<>>
    /\ outstandingAtCall' = {w \in Slots : InFlight(w) > 0}
    /\ tasksAtCall' = [w \in Slots |-> <<curTask[w], taskSteps[w]>>]
    /\ misuseLeft' = IF misuse THEN misuseLeft - 1 ELSE misuseLeft
    /\ UNCHANGED <<coordVars, ctorVars, chanVars, taskVars,
                   orderAtFirstPause>>

\* One argument per active worker.
FitsActive(list) == Len(list) = Len(writeFns)

\* A task that is done and is not replaced can still be stepped: the caller
\* stops after MaxSteps steps of one task.
MaxSteps == sampler.length + 1

\* No active worker's task has been stepped MaxSteps times.
CanStep == \A j \in 1 .. Len(workers) : taskSteps[workers[j]] < MaxSteps

AsyncStep(actions) ==
    /\ ~isClosed
    /\ CanStep
    /\ Enter("async_step", actions, AsyncStepBody(actions),
             Pending \/ ~FitsActive(actions))
    /\ UNCHANGED <<closeCalls, stepCalls>>

WaitStep ==
    /\ ~isClosed
    /\ Enter("wait_step", <<>>, WaitStepBody, ~Pending)
    /\ UNCHANGED <<closeCalls, stepCalls>>

StepCall(actions) ==
    /\ ~isClosed
    /\ CanStep
    /\ Enter("step", actions, StepBody(actions),
             Pending \/ ~FitsActive(actions))
    /\ UNCHANGED closeCalls

Step(actions) == StepCall(actions) /\ UNCHANGED stepCalls

NextTask ==
    /\ ~isClosed
    /\ Enter("next_task", <<>>, NextTaskBody, Pending)
    /\ UNCHANGED <<closeCalls, stepCalls>>

Call(names, argsList) ==
    /\ ~isClosed
    /\ Enter("call", <<names, argsList>>, CallBody(names, argsList),
             Pending \/ ~FitsActive(names))
    /\ UNCHANGED <<closeCalls, stepCalls>>

Render(mode) ==
    /\ ~isClosed
    /\ Enter("render", <<mode>>, RenderBody(mode), Pending)
    /\ UNCHANGED <<closeCalls, stepCalls>>

\* The task at position index, if there is one, can be stepped.
CanStepAt(index) ==
    index < Len(workers) => taskSteps[workers[index + 1]] < MaxSteps

StepAt(index, action) ==
    /\ ~isClosed
    /\ CanStepAt(index)
    /\ Enter("step_at", <<index, action>>, StepAtBody(index, action), Pending)
    /\ UNCHANGED <<closeCalls, stepCalls>>

NextTaskAt(index) ==
    /\ ~isClosed
    /\ Enter("next_task_at", <<index>>, NextTaskAtBody(index), Pending)
    /\ UNCHANGED <<closeCalls, stepCalls>>

CallAt(index, name) ==
    /\ ~isClosed
    /\ Enter("call_at", <<index, name>>, CallAtBody(index, name), Pending)
    /\ UNCHANGED <<closeCalls, stepCalls>>

\* index is a position of the active lists.
PauseAt(index) ==
    /\ ~isClosed
    /\ index \in 0 .. (Len(readFns) - 1)
    /\ Enter("pause_at", <<index>>, PauseAtBody(index), FALSE)
    /\ UNCHANGED <<closeCalls, stepCalls>>

\* resume_all touches no pipe: its loop and the reset of _paused run as one
\* step.
ResumeAll ==
    /\ ~isClosed
    /\ op = "none"
    /\ op' = "resume_all"
    /\ todo' = <<>>
    /\ results' = <<>>
    /\ raised' = FALSE
    /\ returned' = NoImage
    /\ callArgs' = <<>>
    /\ events' = [j \in 1 .. Len(paused) |->
                     [kind |-> "insert", fn |-> Reversed(paused)[j].worker,
                      tag |-> ""]]
    /\ outstandingAtCall' = {w \in Slots : InFlight(w) > 0}
    /\ readFns' = Reinsert(readFns, Reversed(paused), "read_fn")
    /\ writeFns' = Reinsert(writeFns, Reversed(paused), "write_fn")
    /\ workers' = Reinsert(workers, Reversed(paused), "worker")
    /\ paused' = <<>>
    /\ UNCHANGED <<isWaiting, isClosed, chanVars, orderAtFirstPause,
                   misuseLeft, closeCalls,
                   ctorVars, taskVars, tasksAtCall, stepCalls>>

\* close(), also as called by __exit__ and __del__ (lines 459-466).
Close ==
    /\ closeCalls < MaxCloseCalls
    /\ Enter("close", <<>>, CloseBody, FALSE)
    /\ closeCalls' = closeCalls + 1
    /\ UNCHANGED stepCalls

----------------------------------------------------------------------------
\* The statements.

Running == op # "none" /\ todo # <<>>

\* How a worker can have left _task_sampling_loop_worker: after Close, by
\* an exception of the task, by NotImplementedError, after
\* KeyboardInterrupt.
Left == {"exited", "failed", "unimplemented", "interrupted"}

\* A worker whose process is over: it left its loop, or it never came to it
\* ("crashed").
Gone == Left \cup {"crashed"}

Event(kind, fn, tag) == [kind |-> kind, fn |-> fn, tag |-> tag]

DoSetWaiting ==
    /\ Running
    /\ Head(todo).ins = "set_waiting"
    /\ isWaiting' = Head(todo).flag
    /\ todo' = Tail(todo)
    /\ UNCHANGED <<readFns, writeFns, workers, paused, isClosed, chanVars, op,
                   results, raised, returned, callArgs, events,
                   outstandingAtCall,
                   orderAtFirstPause, misuseLeft, closeCalls,
                   ctorVars, taskVars, tasksAtCall, stepCalls>>

\* Connection.send: appends to the pipe and returns.
DoSend ==
    /\ Running
    /\ Head(todo).ins = "send"
    /\ LET s == Head(todo)
       IN  /\ cmdQ' = [cmdQ EXCEPT ![s.fn] = Append(@, s.cmd)]
           /\ events' = Append(events, Event("send", s.fn, s.cmd.tag))
    /\ todo' = Tail(todo)
    /\ UNCHANGED <<coordVars, respQ, wpc, op, results, raised, returned,
                   callArgs,
                   outstandingAtCall, orderAtFirstPause, misuseLeft, closeCalls,
                   ctorVars, taskVars, tasksAtCall, stepCalls>>

\* Connection.recv: blocks until the pipe holds a message.
DoRecv ==
    /\ Running
    /\ Head(todo).ins = "recv"
    /\ LET s == Head(todo)
       IN  /\ respQ[s.fn] # <<>>
           /\ respQ' = [respQ EXCEPT ![s.fn] = Tail(@)]
           /\ results' = IF s.flag
                         THEN Append(results, Head(respQ[s.fn]))
                         ELSE results
           /\ events' = Append(events, Event("recv", s.fn, ""))
    /\ todo' = Tail(todo)
    /\ UNCHANGED <<coordVars, cmdQ, wpc, op, raised, returned, callArgs,
                   outstandingAtCall, orderAtFirstPause, misuseLeft, closeCalls,
                   ctorVars, taskVars, tasksAtCall, stepCalls>>

\* Process.join: blocks until the worker has left its function.
DoJoin ==
    /\ Running
    /\ Head(todo).ins = "join"
    /\ wpc[Head(todo).fn] \in Left
    /\ events' = Append(events, Event("join", Head(todo).fn, ""))
    /\ todo' = Tail(todo)
    /\ UNCHANGED <<coordVars, chanVars, op, results, raised, returned, callArgs,
                   outstandingAtCall, orderAtFirstPause, misuseLeft, closeCalls,
                   ctorVars, taskVars, tasksAtCall, stepCalls>>

\* pause_at, line 378: the tuple appended to self._paused, made of the
\* index pause_at was called with and what lines 375-377 popped.
PausedEntryWithSlot(index) ==
    [index |-> workers[index + 1],
     read_fn |-> readFns[index + 1],
     write_fn |-> writeFns[index + 1],
     worker |-> workers[index + 1]]

PausedEntry(index) ==
    [index |-> index,
     read_fn |-> readFns[index + 1],
     write_fn |-> writeFns[index + 1],
     worker |-> workers[index + 1]]

\* pause_at, lines 375-378.
DoPop ==
    /\ Running
    /\ Head(todo).ins = "pop"
    /\ LET index == Head(todo).fn
       IN  /\ readFns' = ListPop(readFns, index)
           /\ writeFns' = ListPop(writeFns, index)
           /\ workers' = ListPop(workers, index)
           /\ paused' = Append(paused, PausedEntry(index))
           /\ events' = Append(events, Event("pop", workers[index + 1], ""))
    /\ orderAtFirstPause' = IF paused = <<>>
                            THEN <<readFns, writeFns, workers>>
                            ELSE orderAtFirstPause
    /\ todo' = Tail(todo)
    /\ UNCHANGED <<isWaiting, isClosed, chanVars, op, results, raised, returned,
                   callArgs, outstandingAtCall, misuseLeft, closeCalls,
                   ctorVars, taskVars, tasksAtCall, stepCalls>>

DoSetClosed ==
    /\ Running
    /\ Head(todo).ins = "set_closed"
    /\ isClosed' = Head(todo).flag
    /\ todo' = Tail(todo)
    /\ UNCHANGED <<readFns, writeFns, workers, paused, isWaiting, chanVars,
                   op, results, raised, returned, callArgs, events,
                   outstandingAtCall,
                   orderAtFirstPause, misuseLeft, closeCalls,
                   ctorVars, taskVars, tasksAtCall, stepCalls>>

\* A failed assert: the method is left at once.
DoRaise ==
    /\ Running
    /\ Head(todo).ins = "raise"
    /\ raised' = TRUE
    /\ UNCHANGED returned
    /\ todo' = <<>>
    /\ UNCHANGED <<coordVars, chanVars, op, results, callArgs, events,
                   outstandingAtCall, orderAtFirstPause, misuseLeft, closeCalls,
                   ctorVars, taskVars, tasksAtCall, stepCalls>>

\* ---------------------------------------------------------------------
\* tile_images, lines 38-63.  An image is indexed [row][column][channel]
\* (1-based here, 0-based in the index arithmetic below, as in numpy).

Front(s) == SubSeq(s, 1, Len(s) - 1)

\* Row-major (C order) layout of an array: the flat position of the 0-based
\* index idx in an array of shape shape, and back.
RECURSIVE Ravel(_, _)
Ravel(idx, shape) ==
    IF idx = <<>> THEN 0
    ELSE Ravel(Front(idx), Front(shape)) * shape[Len(shape)] + idx[Len(idx)]

RECURSIVE Unravel(_, _)
Unravel(k, shape) ==
    IF shape = <<>> THEN <<>>
    ELSE Append(Unravel(k \div shape[Len(shape)], Front(shape)),
                k % shape[Len(shape)])

\* int(np.ceil(np.sqrt(n))), line 51.
RoundSqrt(n) ==
    CHOOSE r \in 0 .. n :
        4 * n <= (2 * r + 1) * (2 * r + 1)
            /\ (r = 0 \/ (2 * r - 1) * (2 * r - 1) < 4 * n)

CeilSqrt(n) ==
    CHOOSE r \in 0 .. n : r * r >= n /\ (r = 0 \/ (r - 1) * (r - 1) < n)

\* int(np.ceil(float(n) / d)), line 52.
CeilDiv(n, d) == (n + d - 1) \div d

\* np.asarray(images).shape, lines 49-50.
ImagesShape(images) ==
    <<Len(images), Len(images[1]), Len(images[1][1]), Len(images[1][1][1])>>

\* images[0] * 0, line 55.
TimesZero(image) ==
    [y \in 1 .. Len(image) |->
        [x \in 1 .. Len(image[y]) |->
            [ch \in 1 .. Len(image[y][x]) |-> image[y][x][ch] * 0]]]

\* Lines 54-56: the list padded to new_height * new_width images.
PadImages(images, cells) ==
    images \o [i \in 1 .. (cells - Len(images)) |-> TimesZero(images[1])]

\* out_image.transpose(0, 2, 1, 3, 4), line 60.
NoTransposeAxes == <<0, 1, 2, 3, 4>>

TransposeAxes == <<0, 2, 1, 3, 4>>

\* Axis i of the transposed array is axis axes[i] of the array.
Permute(s, axes) == [i \in 1 .. Len(axes) |-> s[axes[i] + 1]]

InvPermute(s, axes) ==
    [j \in 1 .. Len(axes) |->
        s[CHOOSE i \in 1 .. Len(axes) : axes[i] + 1 = j]]

\* Line 48.
TileImagesFails(images) == Len(images) = 0

\* Lines 49-63, for a non-empty list of equally shaped images.
TileImages(images) ==
    LET shape == ImagesShape(images)
        n_images == shape[1]
        height == shape[2]
        width == shape[3]
        n_channels == shape[4]
        new_height == CeilSqrt(n_images)
        new_width == CeilDiv(n_images, new_height)
        np_images == PadImages(images, new_height * new_width)
        \* np.array(...), lines 54-56, in row-major order
        flat(k) ==
            LET at == Unravel(k, <<new_height * new_width, height, width,
                                   n_channels>>)
            IN  np_images[at[1] + 1][at[2] + 1][at[3] + 1][at[4] + 1]
        \* reshape, line 58
        HWhwc == <<new_height, new_width, height, width, n_channels>>
        img_HWhwc(idx) == flat(Ravel(idx, HWhwc))
        \* transpose, line 60
        HhWwc == Permute(HWhwc, TransposeAxes)
        img_HhWwc(idx) == img_HWhwc(InvPermute(idx, TransposeAxes))
        \* reshape, line 62
        Hh_Ww_c == <<new_height * height, new_width * width, n_channels>>
        img_Hh_Ww_c(idx) == img_HhWwc(Unravel(Ravel(idx, Hh_Ww_c), HhWwc))
    IN  [Y \in 1 .. Hh_Ww_c[1] |->
            [X \in 1 .. Hh_Ww_c[2] |->
                [ch \in 1 .. Hh_Ww_c[3] |->
                    img_Hh_Ww_c(<<Y - 1, X - 1, ch - 1>>)]]]

\* What a task's render returns is the task's business; here it is one
\* pixel that tells the workers' frames apart.
Frame(m) == <<<<<<m.worker + 1>>>>>>

Frames(rs) == [j \in 1 .. Len(rs) |-> Frame(rs[j])]

\* render, lines 443-453: tile_images on the frames read, then "human" shows
\* the tile and returns None, "rgb_array" returns it, and any other mode
\* raises NotImplementedError.
DoTile ==
    /\ Running
    /\ Head(todo).ins = "tile"
    /\ LET mode == Head(todo).cmd.data
           images == Frames(results)
       IN  /\ raised' = (TileImagesFails(images)
                         \/ mode \notin {"human", "rgb_array"})
           /\ returned' = IF ~raised' /\ mode = "rgb_array"
                          THEN TileImages(images)
                          ELSE NoImage
    /\ todo' = <<>>
    /\ UNCHANGED <<coordVars, chanVars, op, results, callArgs, events,
                   outstandingAtCall, orderAtFirstPause, misuseLeft, closeCalls,
                   ctorVars, taskVars, tasksAtCall, stepCalls>>

\* The method returns (or its exception reaches the caller).
Return ==
    /\ op # "none"
    /\ todo = <<>>
    /\ op' = "none"
    /\ results' = <<>>
    /\ raised' = FALSE
    /\ returned' = NoImage
    /\ callArgs' = <<>>
    /\ events' = <<>>
    /\ outstandingAtCall' = {}
    /\ tasksAtCall' = NoTasks
    /\ UNCHANGED <<coordVars, ctorVars, chanVars, taskVars, todo,
                   orderAtFirstPause, misuseLeft, closeCalls, stepCalls>>

----------------------------------------------------------------------------
\* The tasks of a worker.  A task is the episode it plays; its observable
\* state is the number of steps it has taken.

\* Task.get_observations() of task t after s steps.
Obs(t, s) == [task |-> t, step |-> s]

\* Mutant of IsDone: a task is done one step late.
IsDoneLate(s) == s > sampler.length

\* Task.is_done() after s steps.
IsDone(s) == s >= sampler.length

\* TaskSampler.next_task(): the task handed out after task t.
NextEpisode(t) == (t % Len(sampler.episodes)) + 1

\* current_task.step(data), line 172: the result of the step that follows
\* s steps of task t.
TaskStep(t, s) ==
    [observations |-> Obs(t, s + 1), reward |-> s + 1, done |-> IsDone(s + 1)]

\* Mutant of HandleStep: the finished task is replaced but the response
\* keeps the observations of the finished task.
HandleStepNoPatch(t, s, auto) ==
    IF auto /\ IsDone(s + 1)
    THEN [task |-> NextEpisode(t), steps |-> 0, value |-> TaskStep(t, s)]
    ELSE [task |-> t, steps |-> s + 1, value |-> TaskStep(t, s)]

\* Lines 171-177, a Step command: the worker's task and its step count
\* afterwards, and the value written back.
HandleStepAlwaysResamples(t, s, auto) ==
    LET step_result == TaskStep(t, s)
    IN  IF IsDone(s + 1)
        THEN [task |-> NextEpisode(t), steps |-> 0,
              value |-> [step_result EXCEPT
                            !.observations = Obs(NextEpisode(t), 0)]]
        ELSE [task |-> t, steps |-> s + 1, value |-> step_result]

HandleStep(t, s, auto) ==
    LET step_result == TaskStep(t, s)
    IN  IF auto /\ IsDone(s + 1)
        THEN [task |-> NextEpisode(t), steps |-> 0,
              value |-> [step_result EXCEPT
                            !.observations = Obs(NextEpisode(t), 0)]]
        ELSE [task |-> t, steps |-> s + 1, value |-> step_result]

\* Mutant of HandleNextTask: a task that is not done is kept.
HandleNextTaskIfDone(t, s) ==
    IF IsDone(s)
    THEN [task |-> NextEpisode(t), steps |-> 0,
          value |-> [observations |-> Obs(NextEpisode(t), 0), reward |-> 0,
                     done |-> FALSE]]
    ELSE [task |-> t, steps |-> s,
          value |-> [observations |-> Obs(t, s), reward |-> 0,
                     done |-> FALSE]]

\* Lines 179-182, a NextTask command.
HandleNextTask(t, s) ==
    [task |-> NextEpisode(t), steps |-> 0,
     value |-> [observations |-> Obs(NextEpisode(t), 0), reward |-> 0,
                done |-> FALSE]]

\* Lines 184-199, Render, the two space queries and Call: a value computed
\* by the current task, which stays as it is.
HandleQuery(t, s) ==
    [task |-> t, steps |-> s,
     value |-> [observations |-> Obs(t, s), reward |-> 0, done |-> FALSE]]

AnsweredTags == {STEP_COMMAND, NEXT_TASK_COMMAND, RENDER_COMMAND,
                 OBSERVATION_SPACE_COMMAND, ACTION_SPACE_COMMAND,
                 CALL_COMMAND}

Handle(c, t, s, auto) ==
    IF c.tag = STEP_COMMAND THEN HandleStep(t, s, auto)
    ELSE IF c.tag = NEXT_TASK_COMMAND THEN HandleNextTask(t, s)
    ELSE HandleQuery(t, s)

\* The message a worker writes: the value, labelled with the command it
\* answers.
Reply(w, c, value) ==
    [worker |-> w, tag |-> c.tag, data |-> c.data, value |-> value]

\* The label of a message.
Origin(m) == [worker |-> m.worker, tag |-> m.tag, data |-> m.data]

\* getattr(current_task, function_name), lines 196-198, raises
\* AttributeError for a name the task does not have.
MustFail(c) == c.tag = CALL_COMMAND /\ c.data \notin FunctionNames

\* _task_sampling_loop_worker, lines 169-216: worker w reads one command;
\* Close ends the loop (no response) and the sampler is closed on the way
\* out; any other command is answered with one response.
WorkerLoopAcksClose(w) ==
    /\ wpc[w] = "loop"
    /\ cmdQ[w] # <<>>
    /\ Head(cmdQ[w]).tag \in AnsweredTags \cup {CLOSE_COMMAND}
    /\ ~MustFail(Head(cmdQ[w]))
    /\ cmdQ' = [cmdQ EXCEPT ![w] = Tail(@)]
    /\ LET h == Handle(Head(cmdQ[w]), curTask[w], taskSteps[w], autoResample)
       IN  /\ curTask' = [curTask EXCEPT ![w] = h.task]
           /\ taskSteps' = [taskSteps EXCEPT ![w] = h.steps]
           /\ respQ' = [respQ EXCEPT
                           ![w] = Append(@, Reply(w, Head(cmdQ[w]), h.value))]
    /\ IF Head(cmdQ[w]).tag = CLOSE_COMMAND
       THEN /\ wpc' = [wpc EXCEPT ![w] = "exited"]
            /\ samplerClosed' = [samplerClosed EXCEPT ![w] = @ + 1]
       ELSE UNCHANGED <<wpc, samplerClosed>>
    /\ UNCHANGED <<coordVars, ctorVars, callVars, orderAtFirstPause,
                   misuseLeft, closeCalls, stepCalls>>

WorkerLoop(w) ==
    /\ wpc[w] = "loop"
    /\ cmdQ[w] # <<>>
    /\ Head(cmdQ[w]).tag \in AnsweredTags \cup {CLOSE_COMMAND}
    /\ ~MustFail(Head(cmdQ[w]))
    /\ cmdQ' = [cmdQ EXCEPT ![w] = Tail(@)]
    /\ IF Head(cmdQ[w]).tag = CLOSE_COMMAND
       THEN /\ wpc' = [wpc EXCEPT ![w] = "exited"]
            /\ samplerClosed' = [samplerClosed EXCEPT ![w] = @ + 1]
            /\ UNCHANGED <<respQ, curTask, taskSteps>>
       ELSE LET h == Handle(Head(cmdQ[w]), curTask[w], taskSteps[w],
                            autoResample)
            IN  /\ curTask' = [curTask EXCEPT ![w] = h.task]
                /\ taskSteps' = [taskSteps EXCEPT ![w] = h.steps]
                /\ respQ' = [respQ EXCEPT
                                ![w] = Append(@, Reply(w, Head(cmdQ[w]),
                                                       h.value))]
                /\ UNCHANGED <<wpc, samplerClosed>>
    /\ UNCHANGED <<coordVars, ctorVars, callVars, orderAtFirstPause,
                   misuseLeft, closeCalls, stepCalls>>

\* Mutant of WorkerFails: the exception ends the worker before the finally
\* clause has closed the sampler.
WorkerFailsNoFinally(w) ==
    /\ wpc[w] = "loop"
    /\ cmdQ[w] # <<>>
    /\ Head(cmdQ[w]).tag \in {STEP_COMMAND, CALL_COMMAND}
    /\ cmdQ' = [cmdQ EXCEPT ![w] = Tail(@)]
    /\ wpc' = [wpc EXCEPT ![w] = "failed"]
    /\ UNCHANGED <<respQ, curTask, taskSteps, samplerClosed>>
    /\ UNCHANGED <<coordVars, ctorVars, callVars, orderAtFirstPause,
                   misuseLeft, closeCalls, stepCalls>>

\* Lines 172 and 194-198 raise: the task's step, or the method a Call
\* names, raises an exception (for a name the task does not have, getattr
\* does).  There is no except clause for it (line 211 catches
\* KeyboardInterrupt only): the finally clause closes the sampler and the
\* exception ends the worker.  Nothing is written.
WorkerFails(w) ==
    /\ wpc[w] = "loop"
    /\ cmdQ[w] # <<>>
    /\ Head(cmdQ[w]).tag \in {STEP_COMMAND, CALL_COMMAND}
    /\ cmdQ' = [cmdQ EXCEPT ![w] = Tail(@)]
    /\ wpc' = [wpc EXCEPT ![w] = "failed"]
    /\ samplerClosed' = [samplerClosed EXCEPT ![w] = @ + 1]
    /\ UNCHANGED <<respQ, curTask, taskSteps>>
    /\ UNCHANGED <<coordVars, ctorVars, callVars, orderAtFirstPause,
                   misuseLeft, closeCalls, stepCalls>>

\* Mutant of WorkerUnimplemented: a command with an unknown tag is skipped
\* and the loop goes on.
WorkerSkipsUnknown(w) ==
    /\ wpc[w] = "loop"
    /\ cmdQ[w] # <<>>
    /\ Head(cmdQ[w]).tag \notin AnsweredTags \cup {CLOSE_COMMAND}
    /\ cmdQ' = [cmdQ EXCEPT ![w] = Tail(@)]
    /\ UNCHANGED <<respQ, wpc, taskVars>>
    /\ UNCHANGED <<coordVars, ctorVars, callVars, orderAtFirstPause,
                   misuseLeft, closeCalls, stepCalls>>

\* Lines 203-204 and 214-216: a command with any other tag raises
\* NotImplementedError, which leaves the loop through the finally clause.
WorkerUnimplemented(w) ==
    /\ wpc[w] = "loop"
    /\ cmdQ[w] # <<>>
    /\ Head(cmdQ[w]).tag \notin AnsweredTags \cup {CLOSE_COMMAND}
    /\ cmdQ' = [cmdQ EXCEPT ![w] = Tail(@)]
    /\ wpc' = [wpc EXCEPT ![w] = "unimplemented"]
    /\ samplerClosed' = [samplerClosed EXCEPT ![w] = @ + 1]
    /\ UNCHANGED <<respQ, curTask, taskSteps>>
    /\ UNCHANGED <<coordVars, ctorVars, callVars, orderAtFirstPause,
                   misuseLeft, closeCalls, stepCalls>>

\* Lines 211-216: KeyboardInterrupt reaches worker w, while it waits for a
\* command (handling = FALSE) or while its task works on one, which is then
\* not answered; the except clause prints, the finally clause closes the
\* sampler, the function returns.
WorkerInterrupted(w, handling) ==
    /\ wpc[w] = "loop"
    /\ handling => /\ cmdQ[w] # <<>>
                   /\ Head(cmdQ[w]).tag \in AnsweredTags
    /\ cmdQ' = [cmdQ EXCEPT ![w] = IF handling THEN Tail(@) ELSE @]
    /\ wpc' = [wpc EXCEPT ![w] = "interrupted"]
    /\ samplerClosed' = [samplerClosed EXCEPT ![w] = @ + 1]
    /\ UNCHANGED <<respQ, curTask, taskSteps>>
    /\ UNCHANGED <<coordVars, ctorVars, callVars, orderAtFirstPause,
                   misuseLeft, closeCalls, stepCalls>>

\* A command with a tag the worker does not implement is written to the
\* pipe of worker w, as the method current_episodes (lines 251-260, a
\* comment) would: once per worker, between two calls.
WriteUnknown(w) ==
    /\ op = "none"
    /\ ~isClosed
    /\ w \in {workers[j] : j \in 1 .. Len(workers)}
    /\ wpc[w] = "loop"
    /\ cmdQ[w] = <<>>
    /\ cmdQ' = [cmdQ EXCEPT
                  ![w] = Append(@, Command(EPISODE_COMMAND, None, None))]
    /\ UNCHANGED <<respQ, wpc, taskVars>>
    /\ UNCHANGED <<coordVars, ctorVars, callVars, orderAtFirstPause,
                   misuseLeft, closeCalls, stepCalls>>

\* Connection.recv on a pipe whose worker has left and that holds no
\* message: EOFError, if the worker's process held the last open handle of
\* the other end.  (If another process still holds one, as the workers
\* forked earlier do under the "fork" start method, recv blocks: then this
\* step is not taken.)
DoRecvEOF ==
    /\ Running
    /\ Head(todo).ins = "recv"
    /\ respQ[Head(todo).fn] = <<>>
    /\ wpc[Head(todo).fn] \in Gone
    /\ raised' = TRUE
    /\ UNCHANGED returned
    /\ todo' = <<>>
    /\ UNCHANGED <<coordVars, chanVars, op, results, callArgs, events,
                   outstandingAtCall, orderAtFirstPause, misuseLeft, closeCalls,
                   ctorVars, taskVars, tasksAtCall, stepCalls>>

\* Connection.send on such a pipe: BrokenPipeError (or, as DoSend, a write
\* that nobody reads).
DoSendBroken ==
    /\ Running
    /\ Head(todo).ins = "send"
    /\ wpc[Head(todo).fn] \in Gone
    /\ raised' = TRUE
    /\ UNCHANGED returned
    /\ todo' = <<>>
    /\ UNCHANGED <<coordVars, chanVars, op, results, callArgs, events,
                   outstandingAtCall, orderAtFirstPause, misuseLeft, closeCalls,
                   ctorVars, taskVars, tasksAtCall, stepCalls>>

\* _spawn_workers, lines 223-250: one pipe and one started process per
\* sampler_fn_args dictionary; the parent ends' recv and send become the
\* active lists.
DoSpawn ==
    /\ Running
    /\ Head(todo).ins = "spawn"
    /\ readFns' = Range(numProcesses)
    /\ writeFns' = Range(numProcesses)
    /\ workers' = Range(numProcesses)
    /\ wpc' = [w \in Slots |->
                  IF w < numProcesses THEN "starting" ELSE wpc[w]]
    /\ events' = events \o [j \in 1 .. numProcesses |->
                               Event("start", j - 1, "")]
    /\ todo' = Tail(todo)
    /\ UNCHANGED <<paused, isWaiting, isClosed, cmdQ, respQ, op, results,
                   raised, returned, callArgs, outstandingAtCall,
                   orderAtFirstPause,
                   misuseLeft, closeCalls, ctorVars, taskVars, tasksAtCall,
                   stepCalls>>

\* Lines 163-167: a started worker builds its sampler and samples its first
\* task, and then enters its loop; if the sampler cannot be built the
\* TypeError ends the process before the try statement.
WorkerStarts(w) ==
    /\ wpc[w] = "starting"
    /\ wpc' = [wpc EXCEPT ![w] = IF CanBuildSampler THEN "loop" ELSE "crashed"]
    /\ UNCHANGED <<cmdQ, respQ, taskVars>>
    /\ UNCHANGED <<coordVars, ctorVars, callVars, orderAtFirstPause,
                   misuseLeft, closeCalls, stepCalls>>

\* The parameters of _task_sampling_loop_worker without a default, lines
\* 152-157, and the arguments of the call at line 492,
\* target=self._task_sampling_loop_worker().
RequiredWorkerParams ==
    <<"worker_id", "connection_read_fn", "connection_write_fn",
      "make_sampler_fn", "sampler_fn_args", "auto_resample_when_done">>

ThreadTargetCallArgs == <<>>

\* A call binds when every parameter without a default gets an argument.
CallBinds(args) ==
    /\ Len(args) >= Len(RequiredWorkerParams)
    /\ Len(args) <= Len(WorkerParams)

\* ThreadedVectorSampledTasks._spawn_workers, lines 484-503: the queues
\* are made, self._workers is emptied, and building the first Thread
\* evaluates its target, a call of the worker function, in the
\* constructor: that call does not bind and raises TypeError.
DoSpawnThreads ==
    /\ Running
    /\ Head(todo).ins = "spawn_threads"
    /\ ~CallBinds(ThreadTargetCallArgs)
    /\ workers' = <<>>
    /\ raised' = TRUE
    /\ todo' = <<>>
    /\ UNCHANGED <<readFns, writeFns, paused, isWaiting, isClosed, chanVars,
                   op, results, returned, callArgs, events, outstandingAtCall,
                   orderAtFirstPause, misuseLeft, closeCalls, ctorVars,
                   taskVars, tasksAtCall, stepCalls>>

----------------------------------------------------------------------------
\* Inputs.

ActionLists == SeqUpTo(Actions, N)
NameLists == SeqUpTo(FunctionNames, N)
ArgsLists ==
    {[given |-> FALSE, list |-> <<>>]}
        \cup {[given |-> TRUE, list |-> l] : l \in SeqUpTo({"()"}, N)}

Next ==
    \/ \E actions \in ActionLists : AsyncStep(actions)
    \/ WaitStep
    \/ \E actions \in ActionLists : Step(actions)
    \/ NextTask
    \/ \E names \in NameLists, argsList \in ArgsLists : Call(names, argsList)
    \/ \E mode \in RenderModes : Render(mode)
    \/ \E index \in 0 .. (N - 1) : PauseAt(index)
    \/ ResumeAll
    \/ Close
    \/ DoSetWaiting
    \/ DoSend
    \/ DoRecv
    \/ DoJoin
    \/ DoPop
    \/ DoSetClosed
    \/ DoRaise
    \/ DoTile
    \/ Return
    \/ \E w \in Slots : WorkerLoop(w)

\* Callers that keep to the usage rules.
Spec == Init /\ [][Next]_vars

\* TaskWorkers workers whose samplers hand out episodes of EpisodeLen
\* steps, with and without auto-resampling, driven by step, next_task,
\* pause_at and resume_all.
InitTasks == InitWith(0, {TaskWorkers}, {EpisodeSampler}, BOOLEAN)

NextTasks ==
    \/ \E actions \in ActionLists : Step(actions)
    \/ NextTask
    \/ \E index \in 0 .. (N - 1) : PauseAt(index)
    \/ ResumeAll
    \/ DoSetWaiting
    \/ DoSend
    \/ DoRecv
    \/ DoPop
    \/ Return
    \/ \E w \in Slots : WorkerLoop(w)

SpecTasks == InitTasks /\ [][NextTasks]_vars

\* TaskWorkers workers that fail: a task method raises, a command has an
\* unknown tag, KeyboardInterrupt arrives.  The caller keeps to the usage
\* rules and calls step, call_at and close.
InitFaults == InitWith(0, {TaskWorkers}, {OneStepSampler}, {TRUE})

NextFaults ==
    \/ \E actions \in ActionLists : Step(actions)
    \/ \E index \in 0 .. (N - 1),
          name \in FunctionNames \cup UnknownFunctionNames :
              CallAt(index, name)
    \/ Close
    \/ \E w \in Slots : WriteUnknown(w)
    \/ DoSetWaiting
    \/ DoSend
    \/ DoSendBroken
    \/ DoRecv
    \/ DoRecvEOF
    \/ DoJoin
    \/ DoSetClosed
    \/ DoRaise
    \/ Return
    \/ \E w \in Slots : WorkerLoop(w)
    \/ \E w \in Slots : WorkerFails(w)
    \/ \E w \in Slots : WorkerUnimplemented(w)
    \/ \E w \in Slots, handling \in BOOLEAN : WorkerInterrupted(w, handling)

SpecFaults == InitFaults /\ [][NextFaults]_vars

\* The constructor, from its first statement: called with no dictionaries
\* or N of them, with any of StartMethods, on an object whose attributes do
\* not exist yet (the two flags hold any value).
InitConstructWith(sizes, spawn) ==
    /\ numProcesses \in sizes
    /\ sampler = OneStepSampler
    /\ autoResample \in BOOLEAN
    /\ hasPaused = FALSE
    /\ readFns = <<>>
    /\ writeFns = <<>>
    /\ workers = <<>>
    /\ paused = <<>>
    /\ isWaiting \in BOOLEAN
    /\ isClosed \in BOOLEAN
    /\ cmdQ = [w \in Slots |-> <<>>]
    /\ respQ = [w \in Slots |-> <<>>]
    /\ wpc = [w \in Slots |-> "unspawned"]
    /\ curTask = [w \in Slots |-> 1]
    /\ taskSteps = [w \in Slots |-> 0]
    /\ samplerClosed = [w \in Slots |-> 0]
    /\ op = "__init__"
    /\ \E method \in StartMethods :
           /\ todo = InitBodyWith(numProcesses, method, spawn)
           /\ callArgs = <<method>>
    /\ results = <<>>
    /\ raised = FALSE
    /\ returned = NoImage
    /\ events = <<>>
    /\ outstandingAtCall = {}
    /\ tasksAtCall = NoTasks
    /\ orderAtFirstPause = <<readFns, writeFns, workers>>
    /\ misuseLeft = 0
    /\ closeCalls = 0
    /\ stepCalls = 0

InitConstruct == InitConstructWith({0, N}, Spawn)

NextConstruct ==
    \/ DoSetWaiting
    \/ DoSetClosed
    \/ DoRaise
    \/ DoSpawn
    \/ DoSend
    \/ DoSendBroken
    \/ DoRecvEOF
    \/ Return
    \/ \E w \in Slots : WorkerStarts(w)

SpecConstruct == InitConstruct /\ [][NextConstruct]_vars

\* The constructor, and close() called afterwards (by the caller, by
\* __exit__ or by __del__, lines 459-466) whether or not it failed.
NextFinalize ==
    \/ NextConstruct
    \/ Close

SpecFinalize == InitConstruct /\ [][NextFinalize]_vars

\* The constructor of ThreadedVectorSampledTasks.
\* ThreadedVectorSampledTasks inherits __init__ and overrides
\* _spawn_workers, lines 479-507.
InitThreaded == InitConstructWith(0 .. N, SpawnThreads)

NextThreaded ==
    \/ DoSetWaiting
    \/ DoSetClosed
    \/ DoRaise
    \/ DoSpawnThreads
    \/ Return

SpecThreaded == InitThreaded /\ [][NextThreaded]_vars

\* The same workers driven one at a time, by step_at, next_task_at and
\* call_at, between pause_at and resume_all.
NextAt ==
    \/ \E index \in 0 .. (N - 1), action \in Actions : StepAt(index, action)
    \/ \E index \in 0 .. (N - 1) : NextTaskAt(index)
    \/ \E index \in 0 .. (N - 1), name \in FunctionNames : CallAt(index, name)
    \/ \E index \in 0 .. (N - 1) : PauseAt(index)
    \/ ResumeAll
    \/ DoSetWaiting
    \/ DoSend
    \/ DoRecv
    \/ DoPop
    \/ DoRaise
    \/ Return
    \/ \E w \in Slots : WorkerLoop(w)

SpecAt == InitTasks /\ [][NextAt]_vars

\* The same workers, with auto-resampling, driven by nothing but step():
\* the calls are counted.
KthStep(actions) ==
    /\ stepCalls < MaxStepCalls
    /\ StepCall(actions)
    /\ stepCalls' = stepCalls + 1

InitStepOnly == InitWith(0, {TaskWorkers}, {EpisodeSampler}, {TRUE})

NextStepOnly ==
    \/ \E actions \in ActionLists : KthStep(actions)
    \/ DoSetWaiting
    \/ DoSend
    \/ DoRecv
    \/ Return
    \/ \E w \in Slots : WorkerLoop(w)

SpecStepOnly == InitStepOnly /\ [][NextStepOnly]_vars

\* Callers that may break them.
SpecAnyUse == InitAnyUse /\ [][Next]_vars

\* tile_images on its own.  An image of the inputs: pixel values differ by
\* image, row, column and channel, and image 0 is all zero.
SampleImage(id, height, width, n_channels) ==
    [y \in 1 .. height |->
        [x \in 1 .. width |->
            [ch \in 1 .. n_channels |->
                IF id = 0 THEN 0
                ELSE ((id * height + y) * width + x) * n_channels + ch]]]

\* The list of the images ids, all of one shape.
SampleImages(ids, height, width, n_channels) ==
    [i \in 1 .. Len(ids) |-> SampleImage(ids[i], height, width, n_channels)]

TileImagesStmt == Stmt("tile_images", -1, NoCommand, FALSE)

\* tile_images(images) has been called; no coordinator is involved.
InitTileOf(idLists, sides, channels) ==
    /\ numProcesses = 0
    /\ sampler = OneStepSampler
    /\ autoResample = TRUE
    /\ hasPaused = FALSE
    /\ readFns = <<>>
    /\ writeFns = <<>>
    /\ workers = <<>>
    /\ paused = <<>>
    /\ isWaiting = FALSE
    /\ isClosed = TRUE
    /\ cmdQ = [w \in Slots |-> <<>>]
    /\ respQ = [w \in Slots |-> <<>>]
    /\ wpc = [w \in Slots |-> "unspawned"]
    /\ curTask = [w \in Slots |-> 1]
    /\ taskSteps = [w \in Slots |-> 0]
    /\ samplerClosed = [w \in Slots |-> 0]
    /\ op = "tile_images"
    /\ todo = <<TileImagesStmt>>
    /\ \E ids \in idLists, height \in sides, width \in sides,
          n_channels \in channels :
           callArgs = <<SampleImages(ids, height, width, n_channels)>>
    /\ results = <<>>
    /\ raised = FALSE
    /\ returned = NoImage
    /\ events = <<>>
    /\ outstandingAtCall = {}
    /\ tasksAtCall = NoTasks
    /\ orderAtFirstPause = <<readFns, writeFns, workers>>
    /\ misuseLeft = 0
    /\ closeCalls = 0
    /\ stepCalls = 0

\* tile_images, lines 48-63, on the list it was called with.
DoTileImages ==
    /\ Running
    /\ Head(todo).ins = "tile_images"
    /\ LET images == callArgs[1]
       IN  /\ raised' = TileImagesFails(images)
           /\ returned' = IF raised' THEN NoImage ELSE TileImages(images)
    /\ todo' = <<>>
    /\ UNCHANGED <<coordVars, chanVars, op, results, callArgs, events,
                   outstandingAtCall, orderAtFirstPause, misuseLeft, closeCalls,
                   ctorVars, taskVars, tasksAtCall, stepCalls>>

InitTile ==
    InitTileOf(SeqUpTo(0 .. MaxImageId, MaxImages), 1 .. MaxSide,
               1 .. MaxChannels)

NextTile ==
    \/ DoTileImages
    \/ Return

SpecTile == InitTile /\ [][NextTile]_vars

\* tile_images on longer lists, of one-pixel images that are not zero: the
\* grid of the result is then the result's own rows and columns.
InitGrid ==
    InitTileOf({[i \in 1 .. n_images |-> 1] : n_images \in 0 .. MaxGridImages},
               {1}, {1})

SpecGrid == InitGrid /\ [][NextTile]_vars

----------------------------------------------------------------------------
\* Vocabulary of the properties.

\* self._num_processes, line 114.
NumProcesses == numProcesses

\* num_unpaused_tasks, line 148.
NumUnpausedTasks == NumProcesses - Len(paused)

\* Positions of the events of one kind made so far by the call in progress.
EventsOf(kind) == {i \in 1 .. Len(events) : events[i].kind = kind}

\* How many events of one kind the call in progress has made on worker w.
Count(kind, w) == Cardinality({i \in EventsOf(kind) : events[i].fn = w})

\* The workers of the active lists.
Active == {readFns[j] : j \in 1 .. Len(readFns)}

\* The call in progress has run its last statement and is about to return.
AtReturn(name) == op = name /\ todo = <<>>

\* Every event of kind first comes before every event of kind then.
Before(first, then) ==
    \A i \in EventsOf(first), j \in EventsOf(then) : i < j

----------------------------------------------------------------------------
\* C1: in every reachable state the active lists and the paused list
\* together hold N entries: the three active lists have one length, that
\* length plus len(_paused) is N, and num_unpaused_tasks is that length.
C1_ActivePlusPausedIsN ==
    /\ Len(readFns) + Len(paused) = N
    /\ Len(writeFns) = Len(readFns)
    /\ Len(workers) = Len(readFns)
    /\ NumUnpausedTasks = N - Len(paused)
    /\ NumUnpausedTasks = Len(readFns)

\* A step has returned with one worker active and the others paused.
C1_Witness ==
    /\ AtReturn("step")
    /\ Len(paused) = N - 1
    /\ Len(results) = 1

\* C2: resume_all after one or more pause_at calls empties the paused list
\* and puts the three active lists back in the order they had just before
\* the first pause_at of the cycle.
C2_ResumeRestoresOrder ==
    [][(op = "none" /\ op' = "resume_all" /\ paused # <<>>)
         => /\ paused' = <<>>
            /\ <<readFns', writeFns', workers'>> = orderAtFirstPause]_vars

\* resume_all has put back two or more paused workers.
C2_Witness ==
    /\ AtReturn("resume_all")
    /\ Len(events) >= 2
    /\ paused = <<>>

\* C3: the step of pause_at(i) that changes the lists removes exactly
\* position i from each active list (positions below i stay, positions
\* above i move down by one) and appends that worker to the paused list.
C3_PauseRemovesOnlyIndex ==
    [][(Len(paused') = Len(paused) + 1)
         => LET i == callArgs[1] + 1
            IN  /\ op = "pause_at"
                /\ \A list \in {<<readFns, readFns'>>, <<writeFns, writeFns'>>,
                                <<workers, workers'>>} :
                       /\ Len(list[2]) = Len(list[1]) - 1
                       /\ \A j \in 1 .. Len(list[1]) :
                              /\ j < i => list[2][j] = list[1][j]
                              /\ j > i => list[2][j - 1] = list[1][j]
                /\ SubSeq(paused', 1, Len(paused)) = paused
                /\ paused'[Len(paused')].read_fn = readFns[i]
                /\ paused'[Len(paused')].write_fn = writeFns[i]
                /\ paused'[Len(paused')].worker = workers[i]]_vars

\* pause_at(1) has run on three or more active workers: one stays below,
\* one moves down.
C3_Witness ==
    /\ AtReturn("pause_at")
    /\ callArgs = <<1>>
    /\ Len(readFns) >= 2
    /\ readFns[1] = 0
    /\ readFns[2] = 2

\* C4: when pause_at is called with a dispatch outstanding, it has read
\* one response from every active worker when it comes to change the
\* lists, all its reads come before that change, and the worker it pauses
\* is left with nothing unread on its pipe.
C4_PauseDrainsFirst ==
    (op = "pause_at" /\ outstandingAtCall # {})
        => /\ (todo # <<>> /\ Head(todo).ins = "pop")
                  => \A w \in Active : Count("recv", w) = 1
           /\ Before("recv", "pop")
           /\ AtReturn("pause_at")
                  => LET w == paused[Len(paused)].worker
                     IN  /\ Count("recv", w) = 1
                         /\ respQ[w] = <<>>
                         /\ cmdQ[w] = <<>>

\* pause_at has returned after draining an outstanding dispatch.
C4_Witness ==
    /\ AtReturn("pause_at")
    /\ outstandingAtCall # {}
    /\ EventsOf("recv") # {}

\* C5: in step, next_task, call and render no response is read before the
\* command has been written to every active worker.
C5_WritesBeforeReads ==
    (op \in {"step", "next_task", "call", "render"})
        => /\ Before("send", "recv")
           /\ EventsOf("recv") # {}
                  => \A w \in Active : Count("send", w) = 1

\* A step on N active workers has written N commands and read N responses.
C5_Witness ==
    /\ AtReturn("step")
    /\ Len(readFns) = N
    /\ Cardinality(EventsOf("send")) = N
    /\ Cardinality(EventsOf("recv")) = N

\* C6: step(actions) returns one entry per active worker; entry j is the
\* response of the worker at active position j to actions[j]; every active
\* worker's pipe is read once.
C6_StepResultsAligned ==
    AtReturn("step")
        => /\ Len(results) = Len(workers)
           /\ \A j \in 1 .. Len(workers) :
                  /\ Origin(results[j]) =
                         Response(workers[j],
                                  Command(STEP_COMMAND, callArgs[j], None))
                  /\ Count("recv", workers[j]) = 1

\* A step has returned two different actions' results from workers whose
\* active position is not their slot.
C6_Witness ==
    /\ AtReturn("step")
    /\ Len(results) >= 2
    /\ results[1].worker # 0
    /\ results[1].data # results[2].data

\* C7: no pipe ever carries more than one unanswered request.
C7_OneOutstandingRequest == \A w \in Slots : InFlight(w) <= 1

\* C8: once the coordinator is closed, a further close() sends nothing,
\* reads nothing, joins nothing, does not raise and changes no field.
C8_CloseIdempotent ==
    [][isClosed
         => /\ UNCHANGED <<coordVars, chanVars>>
            /\ todo' = <<>>
            /\ events' = <<>>
            /\ raised' = FALSE]_vars

\* close() has been called on a closed coordinator and is returning.
C8_Witness ==
    /\ AtReturn("close")
    /\ isClosed
    /\ closeCalls >= 2
    /\ events = <<>>

\* C9: the first close() reads a response from every active worker if a
\* dispatch is outstanding, before it sends anything; it sends Close once
\* to each of the N workers, before it joins any; and when it returns, all
\* N workers have been joined and have left their loop.
C9_CloseDrainsSendsJoins ==
    /\ (op = "close" /\ events # <<>>)
           => /\ Before("recv", "send")
              /\ Before("send", "join")
              /\ \A i \in EventsOf("send") : events[i].tag = CLOSE_COMMAND
              /\ (outstandingAtCall # {} /\ EventsOf("send") # {})
                     => \A w \in Active : Count("recv", w) = 1
              /\ AtReturn("close")
                     => \A w \in Slots : /\ Count("send", w) = 1
                                         /\ Count("join", w) = 1
    /\ isClosed => \A w \in Slots : wpc[w] = "exited"

\* close() has returned after draining a dispatch, with a worker paused.
C9_Witness ==
    /\ AtReturn("close")
    /\ isClosed
    /\ outstandingAtCall # {}
    /\ paused # <<>>
    /\ Len(readFns) >= 2

\* The call in progress waits for something that will never come: a
\* response of a worker that has no command left to answer, or the exit of
\* a worker that has no Close to read.
Stuck ==
    /\ op # "none"
    /\ todo # <<>>
    /\ LET s == Head(todo)
       IN  \/ /\ s.ins = "recv"
              /\ respQ[s.fn] = <<>>
              /\ (cmdQ[s.fn] = <<>> \/ wpc[s.fn] \in Left)
           \/ /\ s.ins = "join"
              /\ wpc[s.fn] = "loop"
              /\ \A i \in 1 .. Len(cmdQ[s.fn]) :
                     cmdQ[s.fn][i].tag # CLOSE_COMMAND

\* C10: close() never blocks for ever, given that every worker answers
\* each command it receives.
C10_CloseNeverBlocks == op = "close" => ~Stuck

----------------------------------------------------------------------------
\* Worker w handles a Step command in this step: it takes the command off
\* its pipe and writes one response.
HandlesStep(w) ==
    /\ wpc[w] = "loop"
    /\ cmdQ[w] # <<>>
    /\ Head(cmdQ[w]).tag = STEP_COMMAND
    /\ cmdQ'[w] = Tail(cmdQ[w])
    /\ Len(respQ'[w]) = Len(respQ[w]) + 1

\* The response written last by w, after the step.
Written(w) == respQ'[w][Len(respQ'[w])].value

\* C11: with auto-resampling, the response to the step that finishes a task
\* (its EpisodeLen-th) has done = TRUE and the reward of that step, its
\* observations are the first observations of the task sampled next, and
\* that task is the worker's current task afterwards; the response to any
\* other step is the task's own step result and the task stays.
C11_ResampleOnDone ==
    [][\A w \in Slots :
          (autoResample /\ HandlesStep(w))
              => LET k == taskSteps[w] + 1
                     fresh == NextEpisode(curTask[w])
                 IN  IF k = sampler.length
                     THEN /\ Written(w).done
                          /\ Written(w).reward = k
                          /\ Written(w).observations = Obs(fresh, 0)
                          /\ fresh # curTask[w]
                          /\ curTask'[w] = fresh
                          /\ taskSteps'[w] = 0
                     ELSE /\ Written(w) = TaskStep(curTask[w], taskSteps[w])
                          /\ ~Written(w).done
                          /\ curTask'[w] = curTask[w]
                          /\ taskSteps'[w] = k]_vars

\* A worker has answered the step that finished its first task: the
\* response waiting in its pipe says done and shows the fresh second task.
C11_Witness ==
    \E w \in Slots :
        /\ autoResample
        /\ respQ[w] # <<>>
        /\ Head(respQ[w]).tag = STEP_COMMAND
        /\ Head(respQ[w]).value.done
        /\ Head(respQ[w]).value.reward = EpisodeLen
        /\ Head(respQ[w]).value.observations = Obs(2, 0)
        /\ curTask[w] = 2

\* C12: with auto-resampling and episodes of EpisodeLen steps, when nothing
\* but step() is called, the k-th step() returns one result per worker and
\* every result says done exactly when k is a multiple of EpisodeLen.
C12_DoneEveryLthStep ==
    (AtReturn("step") /\ autoResample)
        => /\ ~raised
           /\ Len(results) = numProcesses
           /\ \A j \in 1 .. Len(results) :
                  results[j].value.done <=> (stepCalls % EpisodeLen = 0)

\* The step() call that finishes the first episode has returned done from
\* every worker, after earlier calls that returned not done.
C12_Witness ==
    /\ AtReturn("step")
    /\ autoResample
    /\ stepCalls = EpisodeLen
    /\ EpisodeLen > 1
    /\ Len(results) = TaskWorkers
    /\ \A j \in 1 .. Len(results) : results[j].value.done

\* C13: when next_task() returns, every active worker has replaced the task
\* it had at the call by the next task of its own sampler, done or not; the
\* result holds, in active order, the first observations of each of these
\* new tasks; the task of every paused worker is the one it had at the call.
C13_NextTaskResamplesActive ==
    AtReturn("next_task")
        => /\ Len(results) = Len(workers)
           /\ \A j \in 1 .. Len(workers) :
                  LET w == workers[j]
                      fresh == NextEpisode(tasksAtCall[w][1])
                  IN  /\ results[j].worker = w
                      /\ results[j].tag = NEXT_TASK_COMMAND
                      /\ results[j].value.observations = Obs(fresh, 0)
                      /\ fresh # tasksAtCall[w][1]
                      /\ curTask[w] = fresh
                      /\ taskSteps[w] = 0
           /\ \A j \in 1 .. Len(paused) :
                  LET w == paused[j].worker
                  IN  <<curTask[w], taskSteps[w]>> = tasksAtCall[w]

\* next_task() has returned while one worker was paused in the middle of a
\* task and an active worker was in the middle of another.
C13_Witness ==
    /\ AtReturn("next_task")
    /\ \E j \in 1 .. Len(paused) :
           /\ tasksAtCall[paused[j].worker][2] > 0
           /\ ~IsDone(tasksAtCall[paused[j].worker][2])
    /\ \E j \in 1 .. Len(workers) :
           /\ tasksAtCall[workers[j]][2] > 0
           /\ ~IsDone(tasksAtCall[workers[j]][2])
           /\ tasksAtCall[workers[j]][1] = 2

\* The command tag a one-worker method sends.
AtTag ==
    [step_at |-> STEP_COMMAND, next_task_at |-> NEXT_TASK_COMMAND,
     call_at |-> CALL_COMMAND]

\* C14: when step_at, next_task_at or call_at returns for active position
\* i, it has written one command, to the pipe of the worker at position i,
\* and then read one response, from that pipe, and nothing else; the pipes
\* hold no message; every other worker has the task, the step count and
\* the sampler it had at the call; the result is one entry, that worker's
\* answer to the command.
C14_OneWorkerOnly ==
    (op \in DOMAIN AtTag /\ todo = <<>> /\ ~raised)
        => LET w == workers[callArgs[1] + 1]
           IN  /\ readFns[callArgs[1] + 1] = w
               /\ writeFns[callArgs[1] + 1] = w
               /\ events = <<Event("send", w, AtTag[op]), Event("recv", w, "")>>
               /\ Len(results) = 1
               /\ results[1].worker = w
               /\ results[1].tag = AtTag[op]
               /\ \A v \in Slots :
                      /\ cmdQ[v] = <<>>
                      /\ respQ[v] = <<>>
                      /\ samplerClosed[v] = 0
                      /\ v # w => <<curTask[v], taskSteps[v]>> = tasksAtCall[v]

\* step_at(0, action) has returned the result of the worker of slot 1,
\* which stands at position 0 because slot 0 is paused in the middle of a
\* task; the step finished the task of slot 1.
C14_Witness ==
    /\ AtReturn("step_at")
    /\ ~raised
    /\ callArgs[1] = 0
    /\ workers[1] = 1
    /\ results[1].value.done
    /\ tasksAtCall[0][2] > 0

\* The call in progress is call(names, args_list) with a list of arguments
\* that has not one entry per name.
MismatchedCall ==
    /\ op = "call"
    /\ callArgs[2].given
    /\ Len(callArgs[1]) # Len(callArgs[2].list)

\* C15: a call whose list of arguments is given and has not the length of
\* the list of names writes no command to any pipe, and ends by raising.
C15_MismatchRejectedBeforeWrite ==
    MismatchedCall
        => /\ EventsOf("send") = {}
           /\ \A w \in Slots : \A i \in 1 .. Len(cmdQ[w]) :
                  cmdQ[w][i].tag # CALL_COMMAND
           /\ todo = <<>> => raised

\* A call with one name per active worker and a shorter list of arguments
\* has raised.
C15_Witness ==
    /\ MismatchedCall
    /\ AtReturn("call")
    /\ raised
    /\ Len(callArgs[1]) = Len(writeFns)
    /\ Len(callArgs[2].list) = 1
    /\ Len(writeFns) >= 2

\* C16: wait_step() called with no dispatch outstanding does not wait for a
\* response that no worker will send.
C16_WaitStepNeverBlocks ==
    (op = "wait_step" /\ outstandingAtCall = {}) => ~Stuck

----------------------------------------------------------------------------
\* C17: a worker that failed while handling a Step or a Call has written a
\* response for it: when the coordinator comes to read that worker's pipe,
\* a message is there to be read.
C17_FailureSurfaced ==
    \A w \in Slots :
        (Running /\ Head(todo).ins = "recv" /\ Head(todo).fn = w
                 /\ wpc[w] = "failed")
            => respQ[w] # <<>>

\* Worker w takes a command with an unknown tag off its pipe in this step.
ReadsUnknown(w) ==
    /\ wpc[w] = "loop"
    /\ cmdQ[w] # <<>>
    /\ Head(cmdQ[w]).tag \notin AnsweredTags \cup {CLOSE_COMMAND}
    /\ cmdQ'[w] = Tail(cmdQ[w])

\* C18: a worker that reads a command with an unknown tag leaves with
\* NotImplementedError, writes nothing and closes its sampler; from then on
\* it takes no command off its pipe, writes no response, and neither its
\* task nor its sampler changes.
C18_UnknownTagEndsWorker ==
    [][\A w \in Slots :
          /\ ReadsUnknown(w)
                => /\ wpc'[w] = "unimplemented"
                   /\ respQ'[w] = respQ[w]
                   /\ samplerClosed'[w] = samplerClosed[w] + 1
          /\ wpc[w] = "unimplemented"
                => /\ wpc'[w] = "unimplemented"
                   /\ Len(cmdQ'[w]) >= Len(cmdQ[w])
                   /\ Len(respQ'[w]) <= Len(respQ[w])
                   /\ <<curTask'[w], taskSteps'[w], samplerClosed'[w]>>
                          = <<curTask[w], taskSteps[w], samplerClosed[w]>>]_vars

\* A worker has left with NotImplementedError, its sampler closed, and a
\* command sent to it afterwards lies unread in its pipe.
C18_Witness ==
    \E w \in Slots :
        /\ wpc[w] = "unimplemented"
        /\ samplerClosed[w] = 1
        /\ respQ[w] = <<>>
        /\ cmdQ[w] # <<>>
        /\ Head(cmdQ[w]).tag = STEP_COMMAND

\* C19: a worker in its loop has not closed its sampler; a worker that has
\* left its loop, in whichever way, has closed it exactly once.
C19_SamplerClosedOnce ==
    \A w \in Slots :
        /\ wpc[w] = "loop" => samplerClosed[w] = 0
        /\ wpc[w] \in Left => samplerClosed[w] = 1

\* One worker has left after Close and one after an exception of its task,
\* each with its sampler closed once.
C19_Witness ==
    \E v, w \in Slots :
        /\ wpc[v] = "exited"
        /\ wpc[w] = "failed"
        /\ samplerClosed[v] = 1
        /\ samplerClosed[w] = 1

----------------------------------------------------------------------------
\* C20: the constructor, called with at least one dictionary and a valid
\* start method, returns without raising, with one worker per dictionary
\* in its loop, having sent each worker the observation-space query and
\* then the action-space query and read both answers in worker order, with
\* the coordinator open, not waiting, the paused list empty and every pipe
\* empty; called with no dictionary or an invalid start method it raises
\* with no worker started and the coordinator marked closed.
C20_ConstructionInitialises ==
    AtReturn("__init__")
        => IF numProcesses >= 1 /\ callArgs[1] \in ValidStartMethods
           THEN /\ ~raised
                /\ workers = Range(numProcesses)
                /\ readFns = workers
                /\ writeFns = workers
                /\ \A w \in Slots :
                       /\ w < numProcesses => wpc[w] = "loop"
                       /\ cmdQ[w] = <<>>
                       /\ respQ[w] = <<>>
                /\ Len(results) = 2 * numProcesses
                /\ \A j \in 1 .. Len(results) :
                       /\ results[j].worker = (j - 1) % numProcesses
                       /\ results[j].tag = IF j <= numProcesses
                                           THEN OBSERVATION_SPACE_COMMAND
                                           ELSE ACTION_SPACE_COMMAND
                /\ ~isClosed
                /\ ~isWaiting
                /\ hasPaused
                /\ paused = <<>>
           ELSE /\ raised
                /\ isClosed
                /\ EventsOf("start") = {}
                /\ \A w \in Slots : wpc[w] = "unspawned"

\* ---------------------------------------------------------------------
\* C21: render(mode) writes one Render command to each active worker and
\* then reads one frame from each, both in active order; with at least one
\* active worker, "rgb_array" returns the grid of the frames in active
\* order, "human" returns None and any other mode raises; in every case no
\* pipe holds an unanswered request when render ends.
C21_RenderGathersAndTiles ==
    AtReturn("render")
        => LET n == Len(readFns)
               mode == callArgs[1]
           IN  /\ events =
                      [j \in 1 .. 2 * n |->
                          IF j <= n
                          THEN Event("send", writeFns[j], RENDER_COMMAND)
                          ELSE Event("recv", readFns[j - n], "")]
               /\ \A w \in Slots : InFlight(w) = 0
               /\ n > 0 =>
                      /\ raised <=> mode \notin {"human", "rgb_array"}
                      /\ mode = "human" => returned = NoImage
                      /\ mode = "rgb_array" =>
                             /\ returned # NoImage
                             /\ \A j \in 1 .. n :
                                    LET cols == Len(returned[1])
                                    IN  returned[((j - 1) \div cols) + 1]
                                                [((j - 1) % cols) + 1]
                                            = <<readFns[j] + 1>>

\* render("rgb_array") has returned the tile of two frames, read from
\* workers whose active position is not their slot.
C21_Witness ==
    /\ AtReturn("render")
    /\ callArgs = <<"rgb_array">>
    /\ Len(readFns) = 2
    /\ readFns[1] # 0
    /\ returned # NoImage

\* ---------------------------------------------------------------------
\* C22: tile_images on K >= 1 images of shape H x W x C returns a buffer of
\* shape (R*H) x (Cols*W) x C, where R is the least integer with R*R >= K
\* and Cols the least with R*Cols >= K; its cell at grid row r, column c
\* is input image r*Cols+c when that index is below K and all zero
\* otherwise (K = 3 and K = 4 both give a 2 x 2 grid).
C22_TileGrid ==
    (AtReturn("tile_images") /\ callArgs[1] # <<>>)
        => LET images == callArgs[1]
               K == Len(images)
               H == Len(images[1])
               W == Len(images[1][1])
               C == Len(images[1][1][1])
               R == CHOOSE r \in 1 .. K :
                        r * r >= K /\ (r - 1) * (r - 1) < K
               Cols == CHOOSE c \in 1 .. K : R * c >= K /\ R * (c - 1) < K
           IN  /\ ~raised
               /\ R * Cols >= K
               /\ K \in {3, 4} => R = 2 /\ Cols = 2
               /\ Len(returned) = R * H
               /\ \A Y \in 1 .. R * H :
                      /\ Len(returned[Y]) = Cols * W
                      /\ \A X \in 1 .. Cols * W : Len(returned[Y][X]) = C
               /\ \A r \in 0 .. R - 1, c \in 0 .. Cols - 1 :
                      \A y \in 1 .. H, x \in 1 .. W, ch \in 1 .. C :
                          returned[r * H + y][c * W + x][ch] =
                              IF r * Cols + c < K
                              THEN images[r * Cols + c + 1][y][x][ch]
                              ELSE 0

\* Three 2 x 2 images, the last of them not zero, have been tiled into a
\* 4 x 4 buffer whose last cell is zero.
C22_Witness ==
    /\ AtReturn("tile_images")
    /\ Len(callArgs[1]) = 3
    /\ Len(callArgs[1][1]) = 2
    /\ Len(callArgs[1][1][1]) = 2
    /\ callArgs[1][3][1][1][1] # 0
    /\ Len(returned) = 4
    /\ returned[4][4][1] = 0

\* ---------------------------------------------------------------------
\* C23: tile_images raises on an empty list of images, so render() with no
\* active worker (all of them paused) raises, whatever the mode, and
\* returns no image.
C23_EmptyTileIsError ==
    /\ (AtReturn("tile_images") /\ callArgs[1] = <<>>)
           => raised /\ returned = NoImage
    /\ (AtReturn("render") /\ readFns = <<>>)
           => raised /\ returned = NoImage

\* render("rgb_array") has raised with every worker paused.
C23_Witness ==
    /\ AtReturn("render")
    /\ callArgs = <<"rgb_array">>
    /\ readFns = <<>>
    /\ Len(paused) = N
    /\ raised

\* ---------------------------------------------------------------------
\* C24: ThreadedVectorSampledTasks behaves as VectorSampledTasks does; in
\* particular its constructor, called with at least one dictionary and a
\* valid start method, does not raise and leaves one worker per dictionary
\* running the worker loop.
C24_ThreadedConstructs ==
    (AtReturn("__init__")
         /\ numProcesses >= 1 /\ callArgs[1] \in ValidStartMethods)
        => /\ ~raised
           /\ workers = Range(numProcesses)
           /\ \A w \in Slots : w < numProcesses => wpc[w] = "loop"

\* ---------------------------------------------------------------------
\* C25: close(), called after the constructor has ended (normally, or by
\* raising before or after it spawned the workers) or on a closed
\* coordinator, does not raise.
C25_CloseNeverRaises == op = "close" => ~raised

\* ---------------------------------------------------------------------
\* C26: whenever a worker takes a command off its pipe it is in its loop
\* and takes the oldest one; for Close it writes nothing and leaves the
\* loop, for any other command it appends exactly one response, labelled
\* with that command, behind the responses already written; and a response
\* is only ever written in a step that takes a command.  So a worker that
\* has left reads nothing more, and the responses written on a pipe never
\* outnumber the commands read from it.
C26_OneResponsePerCommand ==
    [][\A w \in Slots :
           /\ Len(cmdQ'[w]) < Len(cmdQ[w])
                  => LET c == Head(cmdQ[w])
                     IN  /\ wpc[w] = "loop"
                         /\ cmdQ'[w] = Tail(cmdQ[w])
                         /\ IF c.tag = CLOSE_COMMAND
                            THEN /\ respQ'[w] = respQ[w]
                                 /\ wpc'[w] # "loop"
                            ELSE /\ c.tag \in AnsweredTags
                                 /\ Len(respQ'[w]) = Len(respQ[w]) + 1
                                 /\ SubSeq(respQ'[w], 1, Len(respQ[w]))
                                        = respQ[w]
                                 /\ Origin(respQ'[w][Len(respQ'[w])])
                                        = Response(w, c)
                                 /\ wpc'[w] = "loop"
           /\ Len(respQ'[w]) > Len(respQ[w])
                  => Len(cmdQ'[w]) < Len(cmdQ[w])]_vars

\* Every worker has answered its Call command, and the coordinator has read
\* the first answer.
C26_Witness ==
    /\ op = "call"
    /\ Len(results) = 1
    /\ \A w \in Slots : cmdQ[w] = <<>>
    /\ \E w \in Slots : /\ Len(respQ[w]) = 1
                        /\ respQ[w][1].tag = CALL_COMMAND

\* ---------------------------------------------------------------------
\* C27: while a worker is in the paused list, no step of any method puts a
\* command on its pipe except close(), which puts Close there; its pipe
\* holds no other unread command, and its current task and the number of
\* steps that task has taken do not change, so they are at resume_all
\* what they were at pause_at.
C27_PausedReceivesOnlyClose ==
    [][\A j \in 1 .. Len(paused) :
           LET w == paused[j].write_fn
           IN  /\ Len(cmdQ'[w]) > Len(cmdQ[w])
                      => /\ op = "close"
                         /\ cmdQ'[w][Len(cmdQ'[w])].tag = CLOSE_COMMAND
               /\ \A k \in 1 .. Len(cmdQ[w]) :
                      cmdQ[w][k].tag = CLOSE_COMMAND
               /\ curTask'[w] = curTask[w]
               /\ taskSteps'[w] = taskSteps[w]]_vars

\* render has gathered the frames of the two active workers while the
\* worker of slot 0 was paused and received nothing.
C27_Witness ==
    /\ AtReturn("render")
    /\ Len(paused) = 1
    /\ paused[1].worker = 0
    /\ Len(results) = 2
    /\ cmdQ[0] = <<>>
    /\ respQ[0] = <<>>

\* ---------------------------------------------------------------------
\* C28 (as stated): every entry of the paused list stores the slot of the
\* worker it holds, i.e. the worker's position when all workers are
\* active.
C28_StoresOriginalSlot ==
    \A j \in 1 .. Len(paused) : paused[j].index = paused[j].worker

\* C28 (amended): every entry of the paused list stores the position its
\* worker had in the active lists when it was paused: its slot less the
\* number of workers of lower slots that were paused before it.
C28_StoresActivePosition ==
    \A j \in 1 .. Len(paused) :
        paused[j].index =
            paused[j].worker
                - Cardinality({k \in 1 .. j - 1 :
                                  paused[k].worker < paused[j].worker})

\* Two workers are paused and the second entry's index is not its worker's
\* slot.
C28_Witness ==
    /\ op = "none"
    /\ Len(paused) = 2
    /\ paused[2].index # paused[2].worker

\* ---------------------------------------------------------------------
\* C29: a worker's current task changes only in a step in which the worker
\* handles a Step command that finishes the task with auto-resample on, or
\* a NextTask command; with auto-resample off a Step leaves the task in
\* place, counts one more step on it even when it is already done, and
\* answers with the task's own step result; Render, the space queries and
\* Call leave the task and its step count as they are.
C29_TaskReplacedOnlyByStepOrNextTask ==
    [][\A w \in Slots :
           LET reads == Len(cmdQ'[w]) < Len(cmdQ[w])
               tag == Head(cmdQ[w]).tag
           IN  /\ curTask'[w] # curTask[w]
                      => /\ reads
                         /\ \/ /\ tag = STEP_COMMAND
                               /\ autoResample
                               /\ IsDone(taskSteps[w] + 1)
                            \/ tag = NEXT_TASK_COMMAND
               /\ (~autoResample /\ HandlesStep(w))
                      => /\ curTask'[w] = curTask[w]
                         /\ taskSteps'[w] = taskSteps[w] + 1
                         /\ Written(w) = TaskStep(curTask[w], taskSteps[w])
                         /\ Written(w).observations.task = curTask[w]
               /\ (reads /\ tag \in AnsweredTags
                         /\ tag \notin {STEP_COMMAND, NEXT_TASK_COMMAND})
                      => /\ curTask'[w] = curTask[w]
                         /\ taskSteps'[w] = taskSteps[w]]_vars

\* Without auto-resample a worker has answered a step taken after its task
\* was done: the task is still its first one, one step past its length.
C29_Witness ==
    \E w \in Slots :
        /\ ~autoResample
        /\ curTask[w] = 1
        /\ taskSteps[w] = sampler.length + 1
        /\ respQ[w] # <<>>
        /\ Head(respQ[w]).tag = STEP_COMMAND
        /\ Head(respQ[w]).value.observations = Obs(1, sampler.length + 1)

\* ---------------------------------------------------------------------
\* C30: between calls, _is_waiting is true exactly when a dispatch is
\* outstanding, and then every active worker has exactly one command whose
\* response has not been read and no other worker has any.
C30_IsWaitingAccurate ==
    op = "none"
        => /\ isWaiting <=> Pending
           /\ isWaiting
                  => \A w \in Slots :
                         InFlight(w) = IF w \in Active THEN 1 ELSE 0

----------------------------------------------------------------------------
\* C31: a call rejected because its list of arguments has not the length
\* of its list of names changes no field of the coordinator: at every step
\* of such a call the active lists, the paused list, _is_closed and
\* _is_waiting stay as they are.
C31_RejectedCallChangesNothing ==
    [][MismatchedCall
         => UNCHANGED <<readFns, writeFns, workers, paused, isClosed,
                        isWaiting>>]_vars

----------------------------------------------------------------------------
\* C32: step and call, entered with nothing outstanding, and wait_step,
\* entered with a dispatch outstanding, read only pipes the dispatch wrote
\* a command to: whenever the next statement is a read of worker w's pipe,
\* w was sent a command by this step or call, or by the async_step that
\* wait_step collects.
C32_ReadsOnlyWhatWasWritten ==
    (Running /\ Head(todo).ins = "recv")
        => LET w == Head(todo).fn
           IN  /\ (op \in {"step", "call"} /\ outstandingAtCall = {})
                      => Count("send", w) >= 1
               /\ (op = "wait_step" /\ outstandingAtCall # {})
                      => w \in outstandingAtCall

----------------------------------------------------------------------------
\* C33: for K >= 1 images the grid of tile_images, R rows by Cols columns,
\* has Cols <= R and 0 <= R*Cols - K < Cols: the padding is shorter than a
\* grid row, so the last row starts with a real image.
C33_PaddingShorterThanARow ==
    (AtReturn("tile_images") /\ callArgs[1] # <<>>)
        => LET K == Len(callArgs[1])
               H == Len(callArgs[1][1])
               W == Len(callArgs[1][1][1])
               R == Len(returned) \div H
               Cols == Len(returned[1]) \div W
           IN  /\ ~raised
               /\ Len(returned) = R * H
               /\ Len(returned[1]) = Cols * W
               /\ Cols <= R
               /\ 0 <= R * Cols - K
               /\ R * Cols - K < Cols
               /\ (\A i \in 1 .. K : callArgs[1][i][1][1][1] # 0)
                      => returned[(R - 1) * H + 1][1][1] # 0

\* Five one-pixel images have been tiled: three rows of two, the last
\* cell padding.
C33_Witness ==
    /\ AtReturn("tile_images")
    /\ Len(callArgs[1]) = 5
    /\ Len(returned) = 3
    /\ Len(returned[1]) = 2
    /\ returned[3][1][1] # 0
    /\ returned[3][2][1] = 0

----------------------------------------------------------------------------
\* C34: every worker _spawn_workers has started runs the worker function
\* with its parameters bound as declared: connection_read_fn is the recv
\* and connection_write_fn the send of the child end of its pipe,
\* make_sampler_fn the sampler factory, sampler_fn_args its own dictionary,
\* auto_resample_when_done the coordinator's flag, child_pipe and
\* parent_pipe the two ends; it therefore builds its sampler instead of
\* dying; and the coordinator's read and write functions at index k are
\* those of worker k's pipe.
C34_WorkerParametersBoundAsDeclared ==
    (\E w \in Slots : wpc[w] \in {"starting", "loop", "crashed"})
        => /\ Bound("connection_read_fn") = "worker_conn.recv"
           /\ Bound("connection_write_fn") = "worker_conn.send"
           /\ Bound("make_sampler_fn") = "make_sampler_fn"
           /\ Bound("sampler_fn_args") = "sampler_fn_args"
           /\ Bound("auto_resample_when_done") = "auto_resample_when_done"
           /\ Bound("child_pipe") = "worker_conn"
           /\ Bound("parent_pipe") = "parent_conn"
           /\ \A w \in Slots : wpc[w] # "crashed"
           /\ readFns = Range(numProcesses)
           /\ writeFns = Range(numProcesses)
=============================================================================
